---- MODULE Spec2Model ----
(***************************************************************************)
(* Model of src/main.py of the FastAPI Kubernetes test application: the    *)
(* credential and token service (authenticate_user, create_access_token,   *)
(* get_current_user, the /auth/login and /auth/protected routes) and the   *)
(* request metrics middleware (track_requests) with GET /metrics.          *)
(*                                                                         *)
(* Time is counted in ticks, Res ticks to the second, so that the          *)
(* truncation of a datetime to whole seconds in the JWT exp claim is part  *)
(* of the model.                                                           *)
(***************************************************************************)
EXTENDS Integers, Sequences, FiniteSets, TLC

VARIABLES
    now,            \* wall clock, in ticks since process start
    fake_users_db,  \* the user directory, built once at import time
    held,           \* the token most recently produced by create_access_token
    last,           \* the most recent request to an auth route and its response
    prev,           \* the failed verification before the last one
    reqs,               \* the requests passing through track_requests
    REQUEST_COUNT,      \* http_requests_total, by (method, endpoint, status_code)
    REQUEST_DURATION,   \* http_request_duration_seconds: number of observations
    ACTIVE_CONNECTIONS  \* the active_connections gauge

authvars == <<now, fake_users_db, held, last, prev>>

metricvars == <<reqs, REQUEST_COUNT, REQUEST_DURATION, ACTIVE_CONNECTIONS>>

vars == <<now, fake_users_db, held, last, prev,
          reqs, REQUEST_COUNT, REQUEST_DURATION, ACTIVE_CONNECTIONS>>

-----------------------------------------------------------------------------
(* Bounds of the model *)

\* ticks per second
Res == 2

\* single ticks explored after each quarter of an hour
MaxFine == 1

\* quarters of an hour explored
MaxQuarters == 1

\* requests sent to the service
MaxRequests == 2

-----------------------------------------------------------------------------
(* Configuration, src/main.py:33-39 *)

SECRET_KEY == "your-secret-key-change-this-in-production"

ALGORITHM == "HS256"

ACCESS_TOKEN_EXPIRE_MINUTES == 30

DEFAULT_EXPIRE_MINUTES == 15

HTTP_200_OK == 200

HTTP_401_UNAUTHORIZED == 401

HTTP_403_FORBIDDEN == 403

\* timedelta(minutes=m), in ticks
timedelta_minutes(m) == m * 60 * Res

\* calendar.timegm(dt.utctimetuple()): a datetime cut down to whole seconds
timegm(t) == t \div Res

-----------------------------------------------------------------------------
(* Values *)

\* a key that a dict does not hold
Absent == "<absent>"

\* None / JSON null
Null == "<null>"

None == [none |-> TRUE]

Usernames == {"testuser", "nonexistentuser"}

Passwords == {"testpassword", "wrongpassword", ""}

Salts == {"saltA"}

\* bcrypt.hashpw(password, salt): the salt is kept in the hash, the digest
\* is a one-way function of both
hashpw(password, salt) ==
    [salt |-> salt, digest |-> <<"bcrypt", salt, password>>]

\* bcrypt.checkpw(password, hashed): hash again under the salt of the hash
checkpw(password, hashed) == hashpw(password, hashed.salt) = hashed

verify_password(plain_password, hashed_password) ==
    checkpw(plain_password, hashed_password)

\* the mock user database for one value of bcrypt.gensalt()
MakeUsersDb(salt) ==
    [u \in {"testuser"} |->
        [username |-> "testuser",
         email |-> "test@example.com",
         hashed_password |-> hashpw("testpassword", salt)]]

get_user(username) ==
    IF username \in DOMAIN fake_users_db
    THEN fake_users_db[username]
    ELSE None

\* authenticate_user without the password check
authenticate_user_any_password(username, password) ==
    get_user(username)

authenticate_user(username, password) ==
    LET user == get_user(username) IN
    IF user = None THEN None
    ELSE IF ~verify_password(password, user.hashed_password) THEN None
    ELSE user

-----------------------------------------------------------------------------
(* Tokens (python-jose, HS256) *)

\* The HMAC of header and claims under a key: whoever lacks the key cannot
\* produce it, and it binds the algorithm and every claim.
Sign(algorithm, claims, key) == [key |-> key, alg |-> algorithm, claims |-> claims]

NoSig == [key |-> "", alg |-> "", claims |-> [sub |-> Absent, user |-> Absent, exp |-> 0]]

\* jwt.encode: a datetime exp is converted to whole seconds, then header and
\* claims are signed
jwt_encode(to_encode, key, algorithm) ==
    LET claims == [to_encode EXCEPT !.exp = timegm(@)] IN
    [form |-> "jwt", alg |-> algorithm, claims |-> claims,
     sig |-> Sign(algorithm, claims, key)]

\* timedelta truthiness: None and timedelta(0) are both falsy
IsTruthyDelta(expires_delta) ==
    /\ expires_delta # None
    /\ expires_delta.ticks # 0

create_access_token(data, expires_delta, t) ==
    LET expire == IF IsTruthyDelta(expires_delta)
                  THEN t + expires_delta.ticks
                  ELSE t + timedelta_minutes(DEFAULT_EXPIRE_MINUTES)
        to_encode == [sub |-> data.sub, user |-> data.user, exp |-> expire]
    IN jwt_encode(to_encode, SECRET_KEY, ALGORITHM)

\* jwt.decode with the signature left unverified
jwt_decode_unverified(token, key, algorithms, t) ==
    IF token.form # "jwt"
        THEN [error |-> "JWTError", payload |-> None]
    ELSE IF token.claims.exp < timegm(t)
        THEN [error |-> "ExpiredSignatureError", payload |-> None]
    ELSE IF token.claims.sub = Null
        THEN [error |-> "JWTClaimsError", payload |-> None]
    ELSE [error |-> "", payload |-> token.claims]

\* jwt.decode that rejects a token from the second of its exp claim on
jwt_decode_strict_exp(token, key, algorithms, t) ==
    IF token.form # "jwt"
        THEN [error |-> "JWTError", payload |-> None]
    ELSE IF token.alg \notin algorithms
        THEN [error |-> "JWTError", payload |-> None]
    ELSE IF token.sig # Sign(token.alg, token.claims, key)
        THEN [error |-> "JWTError", payload |-> None]
    ELSE IF token.claims.exp <= timegm(t)
        THEN [error |-> "ExpiredSignatureError", payload |-> None]
    ELSE IF token.claims.sub = Null
        THEN [error |-> "JWTClaimsError", payload |-> None]
    ELSE [error |-> "", payload |-> token.claims]

\* jwt.decode with the exp claim left unchecked
jwt_decode_no_exp(token, key, algorithms, t) ==
    IF token.form # "jwt"
        THEN [error |-> "JWTError", payload |-> None]
    ELSE IF token.alg \notin algorithms
        THEN [error |-> "JWTError", payload |-> None]
    ELSE IF token.sig # Sign(token.alg, token.claims, key)
        THEN [error |-> "JWTError", payload |-> None]
    ELSE IF token.claims.sub = Null
        THEN [error |-> "JWTClaimsError", payload |-> None]
    ELSE [error |-> "", payload |-> token.claims]

\* jwt.decode(token, key, algorithms) at time t: the JWTError cases in the
\* order jose meets them, else the payload
jwt_decode(token, key, algorithms, t) ==
    IF token.form # "jwt"
        THEN [error |-> "JWTError", payload |-> None]
    ELSE IF token.alg \notin algorithms
        THEN [error |-> "JWTError", payload |-> None]
    ELSE IF token.sig # Sign(token.alg, token.claims, key)
        THEN [error |-> "JWTError", payload |-> None]
    ELSE IF token.claims.exp < timegm(t)
        THEN [error |-> "ExpiredSignatureError", payload |-> None]
    ELSE IF token.claims.sub = Null
        THEN [error |-> "JWTClaimsError", payload |-> None]
    ELSE [error |-> "", payload |-> token.claims]

-----------------------------------------------------------------------------
(* HTTP responses *)

Response(status_code, detail, www_authenticate, body) ==
    [status_code |-> status_code, detail |-> detail,
     www_authenticate |-> www_authenticate, body |-> body]

\* the one HTTPException get_current_user builds and raises
credentials_exception ==
    Response(HTTP_401_UNAUTHORIZED, "Could not validate credentials", "Bearer", Absent)

\* dict.get(key): None for a key the dict does not hold
payload_get(payload, key) ==
    IF payload[key] = Absent THEN Null ELSE payload[key]

\* An authentication scheme is a string of ASCII characters, written as the
\* sequence of its characters.
ascii_uppercase ==
    <<"A", "B", "C", "D", "E", "F", "G", "H", "I", "J", "K", "L", "M",
      "N", "O", "P", "Q", "R", "S", "T", "U", "V", "W", "X", "Y", "Z">>

ascii_lowercase ==
    <<"a", "b", "c", "d", "e", "f", "g", "h", "i", "j", "k", "l", "m",
      "n", "o", "p", "q", "r", "s", "t", "u", "v", "w", "x", "y", "z">>

\* the lower-case form of one character
lower_char(c) ==
    IF \E i \in DOMAIN ascii_uppercase : ascii_uppercase[i] = c
    THEN ascii_lowercase[CHOOSE i \in DOMAIN ascii_uppercase : ascii_uppercase[i] = c]
    ELSE c

\* str.lower(): every character folded to lower case
lower(scheme) == [i \in 1..Len(scheme) |-> lower_char(scheme[i])]

\* the spellings of schemes that clients send
Bearer == <<"B", "e", "a", "r", "e", "r">>

bearer == <<"b", "e", "a", "r", "e", "r">>

BeArEr == <<"B", "e", "A", "r", "E", "r">>

Basic == <<"B", "a", "s", "i", "c">>

\* a credential extraction stage that answers a missing header with 401
security_401(authorization) ==
    IF ~(authorization.present /\ authorization.scheme # <<>>
         /\ authorization.credentials # None)
        THEN [error |-> Response(HTTP_401_UNAUTHORIZED, "Not authenticated", "Bearer", Absent),
              credentials |-> None]
    ELSE IF lower(authorization.scheme) # bearer
        THEN [error |-> Response(HTTP_403_FORBIDDEN,
                                 "Invalid authentication credentials", Absent, Absent),
              credentials |-> None]
    ELSE [error |-> None, credentials |-> authorization.credentials]

\* HTTPBearer(auto_error=True): the credential extraction stage
NoHeader == [present |-> FALSE, scheme |-> <<>>, credentials |-> None]

security(authorization) ==
    IF ~(authorization.present /\ authorization.scheme # <<>>
         /\ authorization.credentials # None)
        THEN [error |-> Response(HTTP_403_FORBIDDEN, "Not authenticated", Absent, Absent),
              credentials |-> None]
    ELSE IF lower(authorization.scheme) # bearer
        THEN [error |-> Response(HTTP_403_FORBIDDEN,
                                 "Invalid authentication credentials", Absent, Absent),
              credentials |-> None]
    ELSE [error |-> None, credentials |-> authorization.credentials]

\* a verification stage that reads the user claim when sub is missing
get_current_user_user_claim(credentials, t) ==
    LET decoded == jwt_decode(credentials, SECRET_KEY, {ALGORITHM}, t)
        username == IF payload_get(decoded.payload, "sub") = Null
                    THEN payload_get(decoded.payload, "user")
                    ELSE payload_get(decoded.payload, "sub")
    IN
    IF decoded.error # ""
        THEN [error |-> credentials_exception, user |-> None]
    ELSE IF username = Null
        THEN [error |-> credentials_exception, user |-> None]
    ELSE IF get_user(username) = None
        THEN [error |-> credentials_exception, user |-> None]
    ELSE [error |-> None,
          user |-> [username |-> get_user(username).username,
                    email |-> get_user(username).email]]

\* a verification stage that tells an unknown user apart
get_current_user_user_not_found(credentials, t) ==
    LET decoded == jwt_decode(credentials, SECRET_KEY, {ALGORITHM}, t)
        username == payload_get(decoded.payload, "sub")
    IN
    IF decoded.error # ""
        THEN [error |-> credentials_exception, user |-> None]
    ELSE IF username = Null
        THEN [error |-> credentials_exception, user |-> None]
    ELSE IF get_user(username) = None
        THEN [error |-> Response(HTTP_401_UNAUTHORIZED, "User not found", "Bearer", Absent),
              user |-> None]
    ELSE [error |-> None,
          user |-> [username |-> get_user(username).username,
                    email |-> get_user(username).email]]

\* the verification stage; the result is the raised HTTPException or the User
get_current_user(credentials, t) ==
    LET decoded == jwt_decode(credentials, SECRET_KEY, {ALGORITHM}, t)
        username == payload_get(decoded.payload, "sub")
    IN
    IF decoded.error # ""
        THEN [error |-> credentials_exception, user |-> None]
    ELSE IF username = Null
        THEN [error |-> credentials_exception, user |-> None]
    ELSE IF get_user(username) = None
        THEN [error |-> credentials_exception, user |-> None]
    ELSE [error |-> None,
          user |-> [username |-> get_user(username).username,
                    email |-> get_user(username).email]]

\* GET /auth/protected with its dependency chain, as the client sees it
protected_endpoint(authorization, t) ==
    LET extracted == security(authorization) IN
    IF extracted.error # None
        THEN [resp |-> extracted.error, reached |-> FALSE]
    ELSE LET current == get_current_user(extracted.credentials, t) IN
         IF current.error # None
            THEN [resp |-> current.error, reached |-> TRUE]
         ELSE [resp |-> Response(HTTP_200_OK, Absent, Absent, current.user.username),
               reached |-> TRUE]

\* POST /auth/login
login(username, password, t) ==
    LET user == authenticate_user(username, password) IN
    IF user = None
        THEN [resp |-> Response(HTTP_401_UNAUTHORIZED,
                                "Incorrect username or password", "Bearer", Absent),
              token |-> None]
    ELSE LET access_token ==
                create_access_token([sub |-> user.username, user |-> Absent],
                    [ticks |-> timedelta_minutes(ACCESS_TOKEN_EXPIRE_MINUTES)], t)
         IN [resp |-> Response(HTTP_200_OK, Absent, Absent, "bearer"),
             token |-> access_token]

-----------------------------------------------------------------------------
(* The auth routes as a state machine *)

\* the arguments of create_access_token: an omitted ttl, a zero one, one and
\* two ticks and one in the past for a directory user, and the claims of the
\* direct calls in tests/test_main.py with the ttl omitted
TokenCalls ==
    { <<[sub |-> "testuser", user |-> Absent], d>> :
        d \in { None, [ticks |-> 0], [ticks |-> 1], [ticks |-> 2], [ticks |-> 0 - Res] } }
    \cup
    { <<data, None>> :
        data \in { [sub |-> "nonexistentuser", user |-> Absent],
                   [sub |-> Null, user |-> Absent],
                   [sub |-> Absent, user |-> "testuser"] } }

Garbage == [form |-> "garbage", alg |-> "", claims |-> NoSig.claims, sig |-> NoSig]

\* what a client can put after "Bearer": the token it holds, that token with
\* a claim altered and the signature kept, with the header's alg altered, a
\* token signed with a key of its own, and a string that is no JWT
Presentable(t) ==
    LET forged == jwt_encode([sub |-> "testuser", user |-> Absent,
                              exp |-> t + timedelta_minutes(1)],
                             "attacker-key", ALGORITHM)
    IN {Garbage, forged} \cup
       (IF held = None THEN {}
        ELSE { held.token,
               [held.token EXCEPT !.claims.sub = "testuser"],
               [held.token EXCEPT !.claims.exp = timegm(t) + 60],
               [held.token EXCEPT !.alg = "none"] })

Headers(t) ==
    {NoHeader, [present |-> TRUE, scheme |-> Bearer, credentials |-> None]}
    \cup { [present |-> TRUE, scheme |-> Bearer, credentials |-> c] : c \in Presentable(t) }
    \cup { [present |-> TRUE, scheme |-> BeArEr, credentials |-> c] :
               c \in {Garbage} \cup (IF held = None THEN {} ELSE {held.token}) }
    \cup { [present |-> TRUE, scheme |-> bearer, credentials |-> c] : c \in {Garbage} }
    \cup { [present |-> TRUE, scheme |-> Basic, credentials |-> c] : c \in {Garbage} }

\* which check of the verification stage a token fails at time t, told from
\* the token alone
FailureReason(token, t) ==
    IF \/ token.form # "jwt"
       \/ token.alg # ALGORITHM
       \/ token.sig.key # SECRET_KEY
       \/ token.sig.claims # token.claims
       \/ token.sig.alg # token.alg
        THEN "bad_signature"
    ELSE IF token.claims.exp < timegm(t) THEN "expired"
    ELSE IF token.claims.sub \in {Absent, Null} THEN "missing_subject"
    ELSE IF token.claims.sub \notin DOMAIN fake_users_db THEN "unknown_subject"
    ELSE "none"

NoRequest ==
    [endpoint |-> "", authorization |-> NoHeader, username |-> "", password |-> "",
     at |-> 0, resp |-> Response(0, Absent, Absent, Absent), reached |-> FALSE,
     token |-> None]

\* the last request, if its token failed the verification stage
FailedVerification(req) ==
    /\ req.endpoint = "/auth/protected"
    /\ req.reached
    /\ req.resp.status_code # HTTP_200_OK

\* the record kept of a failed verification once another request follows it
Shifted ==
    IF FailedVerification(last)
    THEN [reason |-> FailureReason(last.authorization.credentials, last.at),
          resp |-> last.resp]
    ELSE prev

AuthInit ==
    /\ now = 0
    /\ \E salt \in Salts : fake_users_db = MakeUsersDb(salt)
    /\ held = None
    /\ last = NoRequest
    /\ prev = None

\* the clock moves on by a tick
Tick ==
    /\ now % timedelta_minutes(DEFAULT_EXPIRE_MINUTES) < MaxFine
    /\ now' = now + 1
    /\ UNCHANGED <<fake_users_db, held, last, prev>>
    /\ UNCHANGED metricvars

\* the clock moves on by a quarter of an hour
TickQuarter ==
    /\ now \div timedelta_minutes(DEFAULT_EXPIRE_MINUTES) < MaxQuarters
    /\ now' = now + timedelta_minutes(DEFAULT_EXPIRE_MINUTES)
    /\ UNCHANGED <<fake_users_db, held, last, prev>>
    /\ UNCHANGED metricvars

\* a direct call of create_access_token; the client now holds its token
CreateToken(data, expires_delta) ==
    /\ held' = [token |-> create_access_token(data, expires_delta, now),
                at |-> now, data |-> data, expires_delta |-> expires_delta]
    /\ last' = NoRequest
    /\ prev' = Shifted
    /\ UNCHANGED <<now, fake_users_db>>
    /\ UNCHANGED metricvars

-----------------------------------------------------------------------------
(* The request metrics middleware, track_requests, around the handlers *)

HTTP_500_INTERNAL_SERVER_ERROR == 500

HTTP_404_NOT_FOUND == 404

Requests == 1..MaxRequests

\* the route templates requested: an immediate handler, one that raises
\* HTTPException(500), one that calls into psutil, one that sleeps, the
\* metrics exposition, one that loops without awaiting, and the auth routes
Routes ==
    {"/ping", "/error/500", "/health", "/error/timeout", "/metrics",
     "/load-test/cpu", "/auth/login", "/auth/protected"}

\* the routes that take credentials
AuthRoutes == {"/auth/login", "/auth/protected"}

\* request paths that no route of the application matches
Unrouted == {"/nope/1", "/nope/2"}

\* request.url.path: the paths clients send
Paths == Routes \cup Unrouted

\* the template of the route that matches a path, Absent when none does; no
\* route of the application has a path parameter
route_template(path) == IF path \in Routes THEN path ELSE Absent

\* the paths requested without credentials
PlainPaths == Paths \ AuthRoutes

Methods == {"GET", "POST"}

StatusCodes ==
    {HTTP_200_OK, HTTP_401_UNAUTHORIZED, HTTP_403_FORBIDDEN, HTTP_404_NOT_FOUND,
     HTTP_500_INTERNAL_SERVER_ERROR}

\* the label values a counter child can have
Keys == [method : Methods, endpoint : Paths, status_code : StatusCodes]

\* a request not yet sent
NewRequest ==
    [pc |-> "new", method |-> "", path |-> "", status_code |-> 0,
     exit |-> "", delivered |-> 0, snapshot |-> None]

\* request.method and request.url.path, all that track_requests reads of a
\* request
Request(method, path) == [method |-> method, path |-> path]

\* Counter.labels(...): the child of a label triple, created with the value
\* 0 at its first use
labels(counter, method, endpoint, status_code) ==
    LET key == [method |-> method, endpoint |-> endpoint, status_code |-> status_code]
    IN IF key \in DOMAIN counter THEN counter ELSE counter @@ (key :> 0)

\* Counter.labels(...).inc()
labels_inc(counter, method, endpoint, status_code) ==
    LET key == [method |-> method, endpoint |-> endpoint, status_code |-> status_code]
    IN [labels(counter, method, endpoint, status_code) EXCEPT ![key] = @ + 1]

\* the value of the child of a label triple, 0 while it does not exist
counter_value(counter, key) ==
    IF key \in DOMAIN counter THEN counter[key] ELSE 0

\* the requests that have left track_requests
Done == {r \in Requests : reqs[r].pc = "done"}

\* the requests inside track_requests
Inside == {r \in Requests : reqs[r].pc \notin {"new", "done"}}

\* Histogram.observe(...)
observe(histogram) == histogram + 1

\* Gauge.inc() and Gauge.dec()
gauge_inc(gauge) == gauge + 1

gauge_dec(gauge) == gauge - 1

\* a decrement placed after the counter instead of in a finally clause
track_requests_no_finally(gauge, exit) ==
    IF exit = "return" THEN gauge_dec(gauge) ELSE gauge

\* the finally clause of track_requests, reached on every way out of the try
\* block: "return", "raise" and "cancel"
track_requests_finally(gauge, exit) == gauge_dec(gauge)

\* generate_latest(): the registry as it is at the call
generate_latest ==
    [REQUEST_COUNT |-> REQUEST_COUNT,
     REQUEST_DURATION |-> REQUEST_DURATION,
     ACTIVE_CONNECTIONS |-> ACTIVE_CONNECTIONS]

MetricsInit ==
    /\ reqs = [r \in Requests |-> NewRequest]
    /\ REQUEST_COUNT = [k \in {} |-> 0]
    /\ REQUEST_DURATION = 0
    /\ ACTIVE_CONNECTIONS = 0

\* the event loop is free to run a task: no handler is inside a loop that
\* never awaits
EventLoopFree == \A q \in Requests : reqs[q].pc # "busy"

\* a middleware that counts the request before it calls call_next
Enter_counts_on_entry(r, request) ==
    /\ EventLoopFree
    /\ reqs[r].pc = "new"
    /\ \A q \in Requests : q < r => reqs[q].pc # "new"
    /\ ACTIVE_CONNECTIONS' = gauge_inc(ACTIVE_CONNECTIONS)
    /\ REQUEST_COUNT' = labels_inc(REQUEST_COUNT, request.method, request.path,
                                   HTTP_200_OK)
    /\ reqs' = [reqs EXCEPT ![r].pc = "call_next",
                            ![r].method = request.method,
                            ![r].path = request.path]
    /\ UNCHANGED REQUEST_DURATION
    /\ UNCHANGED authvars

\* track_requests up to "await call_next(request)"; requests are numbered in
\* the order in which they arrive
Enter(r, request) ==
    /\ EventLoopFree
    /\ reqs[r].pc = "new"
    /\ \A q \in Requests : q < r => reqs[q].pc # "new"
    /\ ACTIVE_CONNECTIONS' = gauge_inc(ACTIVE_CONNECTIONS)
    /\ reqs' = [reqs EXCEPT ![r].pc = "call_next",
                            ![r].method = request.method,
                            ![r].path = request.path]
    /\ UNCHANGED <<REQUEST_COUNT, REQUEST_DURATION>>
    /\ UNCHANGED authvars

\* the handler is about to run for request r on the given route
AtHandler(r, path) ==
    /\ EventLoopFree
    /\ reqs[r].pc = "call_next"
    /\ reqs[r].path = path

\* a handler's response is ready for call_next to return
Responds(r, status_code) ==
    reqs' = [reqs EXCEPT ![r].pc = "responded", ![r].status_code = status_code]

\* GET /ping
ping(r) ==
    /\ AtHandler(r, "/ping")
    /\ Responds(r, HTTP_200_OK)
    /\ UNCHANGED <<REQUEST_COUNT, REQUEST_DURATION, ACTIVE_CONNECTIONS>>
    /\ UNCHANGED authvars

\* GET /error/500: the HTTPException is turned into a response inside
\* call_next
internal_server_error(r) ==
    /\ AtHandler(r, "/error/500")
    /\ Responds(r, HTTP_500_INTERNAL_SERVER_ERROR)
    /\ UNCHANGED <<REQUEST_COUNT, REQUEST_DURATION, ACTIVE_CONNECTIONS>>
    /\ UNCHANGED authvars

\* GET /health: psutil answers, or raises an error nothing handles
health_check(r) ==
    /\ AtHandler(r, "/health")
    /\ \/ Responds(r, HTTP_200_OK)
       \/ reqs' = [reqs EXCEPT ![r].pc = "raised"]
    /\ UNCHANGED <<REQUEST_COUNT, REQUEST_DURATION, ACTIVE_CONNECTIONS>>
    /\ UNCHANGED authvars

\* GET /error/timeout up to "await asyncio.sleep(30)"
timeout_simulation(r) ==
    /\ AtHandler(r, "/error/timeout")
    /\ reqs' = [reqs EXCEPT ![r].pc = "sleeping"]
    /\ UNCHANGED <<REQUEST_COUNT, REQUEST_DURATION, ACTIVE_CONNECTIONS>>
    /\ UNCHANGED authvars

\* GET /error/timeout after the sleep
timeout_simulation_wakes(r) ==
    /\ EventLoopFree
    /\ reqs[r].pc = "sleeping"
    /\ Responds(r, HTTP_200_OK)
    /\ UNCHANGED <<REQUEST_COUNT, REQUEST_DURATION, ACTIVE_CONNECTIONS>>
    /\ UNCHANGED authvars

\* GET /load-test/cpu up to its loop: the loop has no await, so the event
\* loop runs nothing else until the handler returns
cpu_intensive_task(r) ==
    /\ AtHandler(r, "/load-test/cpu")
    /\ reqs' = [reqs EXCEPT ![r].pc = "busy"]
    /\ UNCHANGED <<REQUEST_COUNT, REQUEST_DURATION, ACTIVE_CONNECTIONS>>
    /\ UNCHANGED authvars

\* GET /load-test/cpu from the end of its loop to its return
cpu_intensive_task_returns(r) ==
    /\ reqs[r].pc = "busy"
    /\ Responds(r, HTTP_200_OK)
    /\ UNCHANGED <<REQUEST_COUNT, REQUEST_DURATION, ACTIVE_CONNECTIONS>>
    /\ UNCHANGED authvars

\* a path no route matches: the router's 404 is turned into a response
\* inside call_next
not_found(r) ==
    /\ \E path \in Unrouted : AtHandler(r, path)
    /\ Responds(r, HTTP_404_NOT_FOUND)
    /\ UNCHANGED <<REQUEST_COUNT, REQUEST_DURATION, ACTIVE_CONNECTIONS>>
    /\ UNCHANGED authvars

\* POST /auth/login: the handler, inside call_next, for the LoginRequest
\* body that request r carries
Login(r, username, password) ==
    LET res == login(username, password, now) IN
    /\ AtHandler(r, "/auth/login")
    /\ reqs[r].method = "POST"
    /\ Responds(r, res.resp.status_code)
    /\ last' = [NoRequest EXCEPT !.endpoint = "/auth/login", !.username = username,
                                 !.password = password, !.at = now,
                                 !.resp = res.resp, !.token = res.token]
    /\ held' = IF res.token = None THEN held
               ELSE [token |-> res.token, at |-> now,
                     data |-> [sub |-> username, user |-> Absent],
                     expires_delta |->
                        [ticks |-> timedelta_minutes(ACCESS_TOKEN_EXPIRE_MINUTES)]]
    /\ prev' = Shifted
    /\ UNCHANGED <<now, fake_users_db>>
    /\ UNCHANGED <<REQUEST_COUNT, REQUEST_DURATION, ACTIVE_CONNECTIONS>>

\* GET /auth/protected: the dependencies and the handler, inside call_next,
\* for the Authorization header that request r carries
Protected(r, authorization) ==
    LET res == protected_endpoint(authorization, now) IN
    /\ AtHandler(r, "/auth/protected")
    /\ reqs[r].method = "GET"
    /\ Responds(r, res.resp.status_code)
    /\ last' = [NoRequest EXCEPT !.endpoint = "/auth/protected",
                                 !.authorization = authorization, !.at = now,
                                 !.resp = res.resp, !.reached = res.reached]
    /\ prev' = Shifted
    /\ UNCHANGED <<now, fake_users_db, held>>
    /\ UNCHANGED <<REQUEST_COUNT, REQUEST_DURATION, ACTIVE_CONNECTIONS>>

\* GET /metrics
get_metrics(r) ==
    /\ AtHandler(r, "/metrics")
    /\ reqs' = [reqs EXCEPT ![r].pc = "responded", ![r].status_code = HTTP_200_OK,
                            ![r].snapshot = generate_latest]
    /\ UNCHANGED <<REQUEST_COUNT, REQUEST_DURATION, ACTIVE_CONNECTIONS>>
    /\ UNCHANGED authvars

\* a middleware that awaits between the counter and the histogram
ReturnResponse_await_between(r) ==
    /\ EventLoopFree
    /\ reqs[r].pc = "responded"
    /\ REQUEST_COUNT' = labels_inc(REQUEST_COUNT, reqs[r].method, reqs[r].path,
                                   reqs[r].status_code)
    /\ reqs' = [reqs EXCEPT ![r].pc = "counted"]
    /\ UNCHANGED <<REQUEST_DURATION, ACTIVE_CONNECTIONS>>
    /\ UNCHANGED authvars

\* track_requests from the return of call_next to its own return: no await
\* lies between the counter, the histogram and the finally clause
ReturnResponse(r) ==
    /\ EventLoopFree
    /\ reqs[r].pc = "responded"
    /\ REQUEST_COUNT' = labels_inc(REQUEST_COUNT, reqs[r].method, reqs[r].path,
                                   reqs[r].status_code)
    /\ REQUEST_DURATION' = observe(REQUEST_DURATION)
    /\ ACTIVE_CONNECTIONS' = track_requests_finally(ACTIVE_CONNECTIONS, "return")
    /\ reqs' = [reqs EXCEPT ![r].pc = "done", ![r].exit = "return",
                            ![r].delivered = reqs[r].status_code]
    /\ UNCHANGED authvars

\* a middleware that counts an unhandled exception as a 500
PropagateError_counted(r) ==
    /\ EventLoopFree
    /\ reqs[r].pc = "raised"
    /\ REQUEST_COUNT' = labels_inc(REQUEST_COUNT, reqs[r].method, reqs[r].path,
                                   HTTP_500_INTERNAL_SERVER_ERROR)
    /\ ACTIVE_CONNECTIONS' = track_requests_finally(ACTIVE_CONNECTIONS, "raise")
    /\ reqs' = [reqs EXCEPT ![r].pc = "done", ![r].exit = "raise",
                            ![r].delivered = HTTP_500_INTERNAL_SERVER_ERROR]
    /\ UNCHANGED REQUEST_DURATION
    /\ UNCHANGED authvars

\* the handler's exception comes out of call_next: only the finally clause
\* runs, and ServerErrorMiddleware answers 500
PropagateError(r) ==
    /\ EventLoopFree
    /\ reqs[r].pc = "raised"
    /\ ACTIVE_CONNECTIONS' = track_requests_finally(ACTIVE_CONNECTIONS, "raise")
    /\ reqs' = [reqs EXCEPT ![r].pc = "done", ![r].exit = "raise",
                            ![r].delivered = HTTP_500_INTERNAL_SERVER_ERROR]
    /\ UNCHANGED <<REQUEST_COUNT, REQUEST_DURATION>>
    /\ UNCHANGED authvars

\* a middleware that records the latency in its finally clause
Cancel_observed(r) ==
    /\ EventLoopFree
    /\ reqs[r].pc \in {"call_next", "sleeping", "responded", "raised"}
    /\ REQUEST_DURATION' = observe(REQUEST_DURATION)
    /\ ACTIVE_CONNECTIONS' = track_requests_finally(ACTIVE_CONNECTIONS, "cancel")
    /\ reqs' = [reqs EXCEPT ![r].pc = "done", ![r].exit = "cancel"]
    /\ UNCHANGED REQUEST_COUNT
    /\ UNCHANGED authvars

\* the request's task is cancelled while track_requests awaits call_next:
\* CancelledError runs the finally clause and no response is delivered
Cancel(r) ==
    /\ EventLoopFree
    /\ reqs[r].pc \in {"call_next", "sleeping", "responded", "raised"}
    /\ ACTIVE_CONNECTIONS' = track_requests_finally(ACTIVE_CONNECTIONS, "cancel")
    /\ reqs' = [reqs EXCEPT ![r].pc = "done", ![r].exit = "cancel"]
    /\ UNCHANGED <<REQUEST_COUNT, REQUEST_DURATION>>
    /\ UNCHANGED authvars

\* fault injection: inc() raises after call_next returned and labels() made
\* the child; only the finally clause runs and ServerErrorMiddleware answers
\* 500
CounterFails(r) ==
    /\ EventLoopFree
    /\ reqs[r].pc = "responded"
    /\ REQUEST_COUNT' = labels(REQUEST_COUNT, reqs[r].method, reqs[r].path,
                               reqs[r].status_code)
    /\ ACTIVE_CONNECTIONS' = track_requests_finally(ACTIVE_CONNECTIONS, "raise")
    /\ reqs' = [reqs EXCEPT ![r].pc = "done", ![r].exit = "metric_error",
                            ![r].delivered = HTTP_500_INTERNAL_SERVER_ERROR]
    /\ UNCHANGED REQUEST_DURATION
    /\ UNCHANGED authvars

\* fault injection: the histogram observation raises after the counter was
\* incremented
ObserveFails(r) ==
    /\ EventLoopFree
    /\ reqs[r].pc = "responded"
    /\ REQUEST_COUNT' = labels_inc(REQUEST_COUNT, reqs[r].method, reqs[r].path,
                                   reqs[r].status_code)
    /\ ACTIVE_CONNECTIONS' = track_requests_finally(ACTIVE_CONNECTIONS, "raise")
    /\ reqs' = [reqs EXCEPT ![r].pc = "done", ![r].exit = "metric_error",
                            ![r].delivered = HTTP_500_INTERNAL_SERVER_ERROR]
    /\ UNCHANGED REQUEST_DURATION
    /\ UNCHANGED authvars

FaultNext ==
    \/ \E r \in Requests : CounterFails(r)
    \/ \E r \in Requests : ObserveFails(r)

MetricsNext ==
    \/ \E r \in Requests, path \in PlainPaths : Enter(r, Request("GET", path))
    \/ \E r \in Requests : ping(r)
    \/ \E r \in Requests : internal_server_error(r)
    \/ \E r \in Requests : health_check(r)
    \/ \E r \in Requests : timeout_simulation(r)
    \/ \E r \in Requests : timeout_simulation_wakes(r)
    \/ \E r \in Requests : cpu_intensive_task(r)
    \/ \E r \in Requests : cpu_intensive_task_returns(r)
    \/ \E r \in Requests : not_found(r)
    \/ \E r \in Requests : get_metrics(r)
    \/ \E r \in Requests : ReturnResponse(r)
    \/ \E r \in Requests : PropagateError(r)
    \/ \E r \in Requests : Cancel(r)

\* the client of the token service is between two requests and has
\* requests left to send
BetweenRequests == Inside = {} /\ Done # Requests

\* the token service behind the middleware: a client that sends one request
\* at a time, each served within a tick, and calls create_access_token
\* between its requests, while the clock runs
AuthNext ==
    \/ BetweenRequests /\ Tick
    \/ BetweenRequests /\ TickQuarter
    \/ \E call \in TokenCalls : BetweenRequests /\ CreateToken(call[1], call[2])
    \/ \E r \in Requests :
          BetweenRequests /\ Enter(r, Request("POST", "/auth/login"))
    \/ \E r \in Requests :
          BetweenRequests /\ Enter(r, Request("GET", "/auth/protected"))
    \/ \E r \in Requests, username \in Usernames, password \in Passwords :
          Login(r, username, password)
    \/ \E r \in Requests, authorization \in Headers(now) : Protected(r, authorization)
    \/ \E r \in Requests : ReturnResponse(r)

-----------------------------------------------------------------------------
(* Specifications *)

Init == AuthInit /\ MetricsInit

\* the token service
Next == AuthNext

Spec == Init /\ [][Next]_vars

\* the metrics middleware
SpecMetrics == Init /\ [][MetricsNext]_vars

\* the metrics middleware with metric recording that can fail
MetricsFaultNext == MetricsNext \/ FaultNext

SpecFault == Init /\ [][MetricsFaultNext]_vars

-----------------------------------------------------------------------------
(* Properties of the token service *)

\* the last request was a GET /auth/protected that reached get_current_user
Verified == last.endpoint = "/auth/protected" /\ last.reached

Tok == last.authorization.credentials

\* the signature verifies under the process secret and algorithm
SignatureVerifies(token) ==
    /\ token.form = "jwt"
    /\ token.alg = ALGORITHM
    /\ token.sig = [key |-> SECRET_KEY, alg |-> ALGORITHM, claims |-> token.claims]

\* the sub claim is present, non-null and a key of the user directory
SubjectResolves(token) ==
    /\ token.claims.sub \notin {Absent, Null}
    /\ token.claims.sub \in DOMAIN fake_users_db

\* the instant the exp claim names lies before the time t
ExpPassed(token, t) == token.claims.exp * Res < t

\* the exp claim lies before the time t cut down to whole seconds
ExpPassedWholeSeconds(token, t) == token.claims.exp < t \div Res

Accepted == last.resp.status_code = HTTP_200_OK /\ last.resp.body = Tok.claims.sub

Rejected == last.resp = credentials_exception

\* C1 as stated: a token is accepted if and only if its signature verifies,
\* its exp claim has not passed at verification time and its sub claim
\* resolves to a user of the directory; every other token gets the
\* authentication failure.
C1_AcceptedIffThreeChecks ==
    Verified =>
        /\ Accepted <=> ( /\ SignatureVerifies(Tok)
                          /\ ~ExpPassed(Tok, last.at)
                          /\ SubjectResolves(Tok) )
        /\ Accepted \/ Rejected

\* C1 amended: the same with expiry judged as the code judges it, on whole
\* seconds: exp is not earlier than the current time cut down to seconds.
C1_AcceptedIffThreeChecksWholeSeconds ==
    Verified =>
        /\ Accepted <=> ( /\ SignatureVerifies(Tok)
                          /\ ~ExpPassedWholeSeconds(Tok, last.at)
                          /\ SubjectResolves(Tok) )
        /\ Accepted \/ Rejected

\* a token with all three checks good was accepted
C1_Witness ==
    /\ Verified /\ Accepted
    /\ SignatureVerifies(Tok) /\ SubjectResolves(Tok)
    /\ ~ExpPassedWholeSeconds(Tok, last.at)
    /\ last.at > held.at

\* the token presented is the one create_access_token returned for a
\* directory user and a ttl the caller supplied, and less than the ttl has
\* elapsed since
RoundTripCase ==
    /\ Verified
    /\ held # None
    /\ Tok = held.token
    /\ held.data.sub \in DOMAIN fake_users_db
    /\ held.expires_delta # None
    /\ last.at - held.at < held.expires_delta.ticks

\* C2: create_access_token({sub: username}, ttl) followed by verification of
\* that token returns the original username, at every verification time
\* with elapsed time < ttl.
C2_RoundTrip ==
    RoundTripCase =>
        /\ last.resp.status_code = HTTP_200_OK
        /\ last.resp.body = held.data.sub

\* a round trip on the last tick before the ttl runs out
C2_Witness ==
    /\ RoundTripCase
    /\ last.at > held.at
    /\ last.at - held.at = held.expires_delta.ticks - 1
    /\ last.resp.body = "testuser"

\* C3 as stated, first half: a token whose exp claim is earlier than the
\* current time fails verification, whatever its signature.
C3_ExpiredAlwaysFails ==
    (Verified /\ Tok.form = "jwt" /\ ExpPassed(Tok, last.at)) => Rejected

\* a token whose exp claim is earlier than the current time in whole seconds
\* fails verification, whatever its signature
C3_ExpiredFails ==
    (Verified /\ Tok.form = "jwt" /\ ExpPassedWholeSeconds(Tok, last.at)) => Rejected

\* once the held token is expired, no later verification accepts it
C3_StaysExpired ==
    (/\ held # None
     /\ held' = held
     /\ get_current_user(held.token, now).error # None
     /\ FailureReason(held.token, now) = "expired")
    => get_current_user(held.token, now').error # None

\* C3 amended: a token whose exp claim is earlier than the current time cut
\* down to whole seconds always fails verification, whether or not its
\* signature is valid, and once expired it is never accepted again.
C3_ExpiredFailsForGood == []C3_ExpiredFails /\ [][C3_StaysExpired]_vars

\* a correctly signed token for a directory user was rejected after its
\* expiry
C3_Witness ==
    /\ Verified /\ Rejected
    /\ SignatureVerifies(Tok) /\ SubjectResolves(Tok)
    /\ ExpPassedWholeSeconds(Tok, last.at)
    /\ held # None /\ Tok = held.token /\ held.at < last.at

\* C4: a correctly signed, unexpired token that lacks sub, or carries a null
\* sub, fails verification with 401 and resolves to no user, whatever other
\* claims it carries.
C4_NoSubjectNoUser ==
    (/\ Verified
     /\ SignatureVerifies(Tok)
     /\ ~ExpPassedWholeSeconds(Tok, last.at)
     /\ Tok.claims.sub \in {Absent, Null})
    => /\ last.resp.status_code = HTTP_401_UNAUTHORIZED
       /\ last.resp.body = Absent

\* a signed, unexpired token with user: testuser and no sub was rejected
C4_Witness ==
    /\ Verified
    /\ SignatureVerifies(Tok)
    /\ ~ExpPassedWholeSeconds(Tok, last.at)
    /\ Tok.claims.sub = Absent
    /\ Tok.claims.user = "testuser"
    /\ last.resp.status_code = HTTP_401_UNAUTHORIZED

\* C5: two requests that fail verification, for whatever reasons, get the
\* same response: the same status 401, detail and WWW-Authenticate header.
C5_FailuresIndistinguishable ==
    (FailedVerification(last) /\ prev # None) =>
        /\ last.resp = prev.resp
        /\ last.resp.status_code = HTTP_401_UNAUTHORIZED

\* two verifications failed one after the other for different reasons, the
\* earlier one for an unknown subject
C5_Witness ==
    /\ FailedVerification(last)
    /\ prev # None
    /\ prev.reason = "unknown_subject"
    /\ FailureReason(Tok, last.at) \in {"bad_signature", "expired", "missing_subject"}

\* a bearer value is present in the Authorization header
BearerPresent(authorization) ==
    /\ authorization.present
    /\ lower(authorization.scheme) = bearer
    /\ authorization.credentials # None

\* C6: a request with no Authorization header is rejected with 403 at the
\* extraction stage, before the verifier is reached; a bearer value that does
\* not verify is rejected with 401 at the verification stage; no request gets
\* 401 for a missing header or 403 for a present but invalid token.
C6_TwoGuardStages ==
    last.endpoint = "/auth/protected" =>
        /\ ~last.authorization.present =>
              last.resp.status_code = HTTP_403_FORBIDDEN /\ ~last.reached
        /\ (BearerPresent(last.authorization)
              /\ FailureReason(Tok, last.at) # "none") =>
              last.resp.status_code = HTTP_401_UNAUTHORIZED /\ last.reached
        /\ last.resp.status_code = HTTP_401_UNAUTHORIZED =>
              BearerPresent(last.authorization)
        /\ last.resp.status_code = HTTP_403_FORBIDDEN =>
              ~BearerPresent(last.authorization)

\* a request without header got 403 right after a bearer value got 401
C6_Witness ==
    /\ last.endpoint = "/auth/protected"
    /\ ~last.authorization.present
    /\ last.resp.status_code = HTTP_403_FORBIDDEN
    /\ prev # None
    /\ prev.resp.status_code = HTTP_401_UNAUTHORIZED

\* the password is the one the record's hash was made from
PasswordMatches(username, password) ==
    /\ username = "testuser"
    /\ password = "testpassword"

\* C7: authenticate_user returns the directory record of the username
\* exactly when the username is a key of the directory and the password
\* matches the record's hash, and the failure value for every other pair;
\* POST /auth/login then answers 401 and issues no token.
C7_AuthenticateExactly ==
    /\ \A u \in Usernames, p \in Passwords :
          authenticate_user(u, p) =
             IF u \in DOMAIN fake_users_db /\ PasswordMatches(u, p)
             THEN fake_users_db[u] ELSE None
    /\ last.endpoint = "/auth/login" =>
          IF last.username \in DOMAIN fake_users_db
                /\ PasswordMatches(last.username, last.password)
          THEN /\ last.resp.status_code = HTTP_200_OK
               /\ last.token # None
               /\ last.token.claims.sub = last.username
          ELSE /\ last.resp.status_code = HTTP_401_UNAUTHORIZED
               /\ last.token = None

\* a login with a known username and a wrong password was answered 401
C7_Witness ==
    /\ last.endpoint = "/auth/login"
    /\ last.username \in DOMAIN fake_users_db
    /\ last.password = "wrongpassword"
    /\ last.resp.status_code = HTTP_401_UNAUTHORIZED
    /\ last.token = None

-----------------------------------------------------------------------------
(* Properties of the metrics middleware *)

\* the requests that ended with a response for the client and are counted
\* under key k if every such request is counted under its final status
Answered(k) ==
    {r \in Done : /\ reqs[r].exit # "cancel"
                  /\ reqs[r].method = k.method
                  /\ reqs[r].path = k.endpoint
                  /\ reqs[r].delivered = k.status_code}

\* the requests for which call_next returned a response with key k
Returned(k) ==
    {r \in Done : /\ reqs[r].exit = "return"
                  /\ reqs[r].method = k.method
                  /\ reqs[r].path = k.endpoint
                  /\ reqs[r].status_code = k.status_code}

\* C8 as stated: after N requests to a route have completed, the counter of
\* their (method, route, status) has grown by exactly N, also when some of
\* them error out server-side.
C8_EveryRequestCountedOnce ==
    \A k \in Keys : counter_value(REQUEST_COUNT, k) = Cardinality(Answered(k))

\* each counter holds the number of requests for which call_next returned a
\* response with its key
C8_CountsReturned ==
    \A k \in Keys : counter_value(REQUEST_COUNT, k) = Cardinality(Returned(k))

\* no step lowers a counter
C8_NeverDecreases ==
    \A k \in Keys : counter_value(REQUEST_COUNT', k) >= counter_value(REQUEST_COUNT, k)

\* C8 amended: after N requests to a route have completed with a response
\* returned by call_next, error responses included, the counter of their
\* (method, path, status) has grown by exactly N and it never decreases; a
\* request whose handler raises an unhandled exception, or that is
\* cancelled, is not counted.
C8_ReturnedCountedOnce == []C8_CountsReturned /\ [][C8_NeverDecreases]_vars

\* all requests are over, each answered 500 by /error/500 and counted
C8_Witness ==
    /\ Done = Requests
    /\ \A r \in Requests : reqs[r].path = "/error/500" /\ reqs[r].exit = "return"
    /\ counter_value(REQUEST_COUNT,
                     [method |-> "GET", endpoint |-> "/error/500",
                      status_code |-> HTTP_500_INTERNAL_SERVER_ERROR]) = MaxRequests

\* C9: the gauge is incremented once on entry and decremented exactly once
\* on every way out (return, exception, cancellation), so it equals the
\* number of requests inside the middleware and is back at its starting
\* value when all have left.
C9_GaugeCountsInside ==
    /\ ACTIVE_CONNECTIONS = Cardinality(Inside)
    /\ Done = Requests => ACTIVE_CONNECTIONS = 0

\* all requests have left, one by an exception and one by cancellation, and
\* the gauge is back at zero
C9_Witness ==
    /\ Done = Requests
    /\ \A e \in {"raise", "cancel"} : \E r \in Requests : reqs[r].exit = e
    /\ ACTIVE_CONNECTIONS = 0

\* C10: when recording a metric fails after the handler has produced a
\* response, the client still receives that response unmodified.
C10_FailOpen ==
    \A r \in Done :
        reqs[r].exit \in {"return", "metric_error"} =>
            reqs[r].delivered = reqs[r].status_code

-----------------------------------------------------------------------------
(* Properties of the counter key and of the exits of track_requests *)

RECURSIVE SumOver(_, _)
\* the sum of the values of f over the set S of its keys
SumOver(f, S) ==
    IF S = {} THEN 0
    ELSE LET k == CHOOSE k \in S : TRUE IN f[k] + SumOver(f, S \ {k})

\* the total of all completion counters
TotalCount(counter) == SumOver(counter, DOMAIN counter)

\* the requests for which call_next returned a response
ReturnedAll == {r \in Done : reqs[r].exit = "return"}

\* every key of the counter names a route template
KeysAreRouteTemplates ==
    \A k \in DOMAIN REQUEST_COUNT : k.endpoint \in Routes

\* one latency observation per response returned by call_next
OneObservationPerResponse == REQUEST_DURATION = Cardinality(ReturnedAll)

\* C11: every exit with a response increments the counter under (method,
\* route template, final status) and records one latency observation, so
\* the counter keys are bounded by the route templates and not by the
\* request paths clients send.
C11_KeyedByRouteTemplate ==
    /\ \A r \in ReturnedAll :
          counter_value(REQUEST_COUNT,
                        [method |-> reqs[r].method,
                         endpoint |-> reqs[r].path,
                         status_code |-> reqs[r].status_code]) > 0
    /\ OneObservationPerResponse
    /\ KeysAreRouteTemplates

-----------------------------------------------------------------------------
(* Properties of create_access_token *)

\* the ttl the caller of create_access_token passed, 15 minutes when it
\* passed none
SuppliedTtl ==
    IF held.expires_delta = None
    THEN timedelta_minutes(DEFAULT_EXPIRE_MINUTES)
    ELSE held.expires_delta.ticks

\* C12: create_access_token sets exp to now + ttl (in whole seconds) for
\* every ttl the caller supplies, a zero ttl included, and to now + 15
\* minutes only when the caller omits the ttl; login always supplies 30
\* minutes; the caller's claims are left as they were.
C12_ExpIsNowPlusTtl ==
    /\ held # None =>
          /\ held.token.claims.exp = timegm(held.at + SuppliedTtl)
          /\ held.token.claims.sub = held.data.sub
          /\ DOMAIN held.data = {"sub", "user"}
    /\ (last.endpoint = "/auth/login" /\ last.token # None) =>
          last.token.claims.exp =
             timegm(last.at + timedelta_minutes(ACCESS_TOKEN_EXPIRE_MINUTES))

-----------------------------------------------------------------------------
(* Properties of the handlers that delay *)

\* request r is inside a handler's artificial delay or load
InDelay(r) == reqs[r].pc \in {"sleeping", "busy"}

\* request q has entered track_requests and has a step left to take
Arrived(q) == reqs[q].pc \in {"call_next", "sleeping", "responded", "raised"}

\* the next step of request q towards its completion
StepOf(q) ==
    \/ ping(q)
    \/ internal_server_error(q)
    \/ health_check(q)
    \/ timeout_simulation(q)
    \/ timeout_simulation_wakes(q)
    \/ cpu_intensive_task(q)
    \/ not_found(q)
    \/ get_metrics(q)
    \/ ReturnResponse(q)
    \/ PropagateError(q)

\* C13: a handler that delays or loads holds up only its own request:
\* while one such request is in progress, every sibling request that has
\* arrived can take its next step.
C13_DelayHoldsOnlyItself ==
    \A r \in Requests, q \in Requests :
        (r # q /\ InDelay(r) /\ Arrived(q)) => ENABLED StepOf(q)

\* the same for the handlers that sleep
SleepHoldsOnlyItself ==
    \A r \in Requests, q \in Requests :
        (r # q /\ reqs[r].pc = "sleeping" /\ Arrived(q) /\ EventLoopFree)
            => ENABLED StepOf(q)

-----------------------------------------------------------------------------
(* Properties of the snapshots GET /metrics returns *)

\* the requests whose GET /metrics handler has taken its snapshot
Readers == {r \in Requests : reqs[r].snapshot # None}

\* a registry in which some completion is counted and not yet observed
Skewed(count, duration) == TotalCount(count) > duration

\* C14 as stated: the counter increment and the histogram observation are
\* separate steps, so that while a GET /metrics reader waits for its
\* handler, a request whose response is ready can have its counter
\* incremented and its latency not yet observed.
C14_CounterVisibleBeforeObservation ==
    \A q \in Requests, r \in Requests :
        (q # r /\ reqs[q].pc = "responded" /\ AtHandler(r, "/metrics")) =>
            ENABLED (/\ MetricsNext
                     /\ Skewed(REQUEST_COUNT', REQUEST_DURATION')
                     /\ reqs'[r].pc = "call_next")

\* C14 amended: no await lies between the counter increment and the
\* histogram observation of a request, so the total of all counters equals
\* the number of observations in every state between two steps of the
\* event loop, and in every snapshot a GET /metrics reader is given.
C14_SnapshotsConsistent ==
    /\ TotalCount(REQUEST_COUNT) = REQUEST_DURATION
    /\ \A r \in Readers :
          TotalCount(reqs[r].snapshot.REQUEST_COUNT) = reqs[r].snapshot.REQUEST_DURATION

\* a reader arrived first and its snapshot shows the completion of a
\* request that arrived after it, counted and observed
C14_Witness ==
    \E r \in Readers, q \in Requests :
        /\ r < q
        /\ reqs[q].exit = "return"
        /\ TotalCount(reqs[r].snapshot.REQUEST_COUNT) = 1
        /\ reqs[r].snapshot.REQUEST_DURATION = 1

-----------------------------------------------------------------------------
(* Properties of the exits of track_requests without a response *)

\* the requests that left track_requests with call_next raising: an
\* unhandled exception of the handler, or cancellation
Aborted == {r \in Done : reqs[r].exit \in {"raise", "cancel"}}

\* request r leaves track_requests in this step with call_next raising
Aborts(r) ==
    /\ reqs[r].pc # "done"
    /\ reqs'[r].pc = "done"
    /\ reqs'[r].exit \in {"raise", "cancel"}

\* counters and aborted requests add up to the requests that have left, and
\* so do latency observations and aborted requests
C15_ExitsAddUp ==
    /\ TotalCount(REQUEST_COUNT) + Cardinality(Aborted) = Cardinality(Done)
    /\ REQUEST_DURATION + Cardinality(Aborted) = Cardinality(Done)

\* a step in which a request leaves with call_next raising changes the gauge
\* by one decrement and nothing else
C15_AbortChangesOnlyGauge ==
    \A r \in Requests :
        Aborts(r) =>
            /\ REQUEST_COUNT' = REQUEST_COUNT
            /\ REQUEST_DURATION' = REQUEST_DURATION
            /\ ACTIVE_CONNECTIONS' = ACTIVE_CONNECTIONS - 1
            /\ authvars' = authvars
            /\ \A q \in Requests \ {r} : reqs'[q] = reqs[q]

\* C15: when call_next raises instead of returning a response (an unhandled
\* handler exception, or cancellation), track_requests increments no
\* completion counter, records no latency observation and changes nothing
\* but the gauge, which it still decrements; so the total of all completion
\* counters plus the number of aborted requests equals the number of
\* requests that have left the middleware.
C15_AbortedNotCounted == []C15_ExitsAddUp /\ [][C15_AbortChangesOnlyGauge]_vars

\* all requests have left, at least one with a response and at least one
\* without
C15_Witness ==
    /\ Done = Requests
    /\ Aborted # {}
    /\ ReturnedAll # {}
    /\ TotalCount(REQUEST_COUNT) = Cardinality(ReturnedAll)

-----------------------------------------------------------------------------
(* Properties of what a GET /metrics request sees of itself *)

\* the counter key of a GET /metrics answered 200
MetricsKey == [method |-> "GET", endpoint |-> "/metrics", status_code |-> HTTP_200_OK]

\* the GET /metrics requests that have finished with their response
FinishedMetrics ==
    {q \in Done : /\ reqs[q].exit = "return"
                  /\ reqs[q].path = "/metrics"
                  /\ reqs[q].status_code = HTTP_200_OK}

\* request r takes its snapshot in this step
TakesSnapshot(r) == reqs[r].snapshot = None /\ reqs'[r].snapshot # None

\* a snapshot shows its own request in flight, and no more GET /metrics
\* completions than those of the other requests
C16_SnapshotSeesItselfInFlight ==
    \A r \in Readers :
        /\ reqs[r].snapshot.ACTIVE_CONNECTIONS >= 1
        /\ counter_value(reqs[r].snapshot.REQUEST_COUNT, MetricsKey)
              <= Cardinality(FinishedMetrics \ {r})

\* a snapshot counts the GET /metrics requests that finished before it was
\* taken, and its own request is not one of them
C16_SnapshotCountsEarlierOnly ==
    \A r \in Requests :
        TakesSnapshot(r) =>
            /\ r \notin FinishedMetrics
            /\ reqs'[r].snapshot.ACTIVE_CONNECTIONS >= 1
            /\ counter_value(reqs'[r].snapshot.REQUEST_COUNT, MetricsKey)
                  = Cardinality(FinishedMetrics)

\* C16: a GET /metrics request observes itself as in flight but not as
\* completed: in every snapshot it returns the gauge is at least 1, and the
\* counter of (GET, /metrics, 200) is the number of GET /metrics requests
\* that finished before it, the request that produced the snapshot not
\* counted.
C16_MetricsSeesItselfInFlight ==
    []C16_SnapshotSeesItselfInFlight /\ [][C16_SnapshotCountsEarlierOnly]_vars

\* a GET /metrics still in flight holds a snapshot that counts one earlier
\* GET /metrics and not itself
C16_Witness ==
    \E r \in Readers :
        /\ reqs[r].pc = "responded"
        /\ counter_value(reqs[r].snapshot.REQUEST_COUNT, MetricsKey) = 1
        /\ Cardinality(FinishedMetrics) = 1
        /\ reqs[r].snapshot.ACTIVE_CONNECTIONS >= 1

====
